---- MODULE Spec2Model ----
(***************************************************************************)
(* Search-and-aggregation subsystem of CTEC Search.                        *)
(*                                                                         *)
(* OfferingQuery  : SearchResults component (paginated offering fetch)     *)
(*                  and the searchOfferings service.                       *)
(* FilterState    : SearchPage selection handlers.                         *)
(* IncrementalSearch : useSearch hook and the searchCourses /              *)
(*                  searchInstructors services.                            *)
(*                                                                         *)
(* React state is modelled as committed at the end of each handler: the    *)
(* render and the effects that follow a state change are part of the step  *)
(* that made the change.  A pending promise is an entry of a list of       *)
(* requests in flight; its continuation is a separate step.                *)
(***************************************************************************)
EXTENDS Integers, Sequences, FiniteSets, TLC

(***************************************************************************)
(* Bounds of the model                                                     *)
(***************************************************************************)
NumOfferings == 25
MaxUserOps == 3
TickMs == 100

(***************************************************************************)
(* Program constants                                                       *)
(***************************************************************************)
PageSize == 10
DebounceWait == 300
MinQueryLength == 2
LookupLimit == 5

VARIABLES
    selectedCourses, selectedInstructors, selectedRequirements,
    results, loading, loadingMore, error, hasMore, currentOffset, totalCount,
    inflight,
    userOps,
    latest, moreOffsets,
    query, searchResults, searchLoading, showDropdown, timeout, lookups,
    searchModule, latestSearch,
    arg, ret,
    page, searchParams, pending, lastOp, opened

filterVars == <<selectedCourses, selectedInstructors, selectedRequirements>>
queryVars == <<results, loading, loadingMore, error, hasMore, currentOffset,
               totalCount, inflight>>
ghostVars == <<latest, moreOffsets>>
boundVars == <<userOps>>
searchVars == <<query, searchResults, searchLoading, showDropdown, timeout,
                lookups, searchModule, latestSearch>>
harnessVars == <<arg, ret>>
urlVars == <<page, searchParams, pending, lastOp, opened>>
otherVars == <<searchVars, harnessVars, urlVars>>
vars == <<filterVars, queryVars, boundVars, ghostVars, searchVars, harnessVars,
          urlVars>>

(***************************************************************************)
(* Helpers on sequences                                                    *)
(***************************************************************************)
Range(s) == {s[i] : i \in 1..Len(s)}

Includes(s, x) == \E i \in 1..Len(s) : s[i] = x

RECURSIVE Filter(_, _)
Filter(s, keep) ==
    IF s = <<>> THEN <<>>
    ELSE IF Head(s) \in keep THEN <<Head(s)>> \o Filter(Tail(s), keep)
    ELSE Filter(Tail(s), keep)

RemoveAt(s, i) == SubSeq(s, 1, i - 1) \o SubSeq(s, i + 1, Len(s))

Min(a, b) == IF a < b THEN a ELSE b

(***************************************************************************)
(* The offering store (course_offerings joined with courses, instructors   *)
(* and course_requirements).                                               *)
(***************************************************************************)
Courses == {"c1", "c2"}
Instructors == {"i1"}
Requirements == {"r1", "r2"}
\* the requirement checkboxes of the filter sidebar
COURSE_REQUIREMENTS == {"r1"}
NullRequirement == "null"

Offerings == 1..NumOfferings

courseOf(o) == IF o % 5 \in {1, 2} THEN "c1" ELSE "c2"

instructorOf(o) == IF o % 5 = 1 THEN "i2" ELSE "i1"

\* course.requirements: rows of course_requirements, each wrapping a
\* requirement (or null when the requirement row is missing)
courseRequirements(c) ==
    IF c = "c1" THEN <<"r1">> ELSE <<NullRequirement, "r2">>

\* The two offerings around the first page boundary of the full listing are
\* sections of the same term.
SameTermAsPrevious(o) == o = NumOfferings - PageSize + 1

termOf(o) == IF SameTermAsPrevious(o) THEN o - 1 ELSE o

Quarters == <<"Fall", "Spring", "Summer", "Winter">>

yearOf(o) == 2000 + (termOf(o) \div 4)

quarterOf(o) == Quarters[(termOf(o) % 4) + 1]

QuarterRank(q) == CHOOSE i \in 1..Len(Quarters) : Quarters[i] = q

(***************************************************************************)
(* searchOfferings: one request to the store.  The query orders by year    *)
(* descending, then quarter descending; offerings of the same year and     *)
(* quarter come back in an order the store picks for each request (tie).   *)
(***************************************************************************)
TieOrders == {"idAsc", "idDesc"}

Before(a, b, tie) ==
    \/ yearOf(a) > yearOf(b)
    \/ /\ yearOf(a) = yearOf(b)
       /\ QuarterRank(quarterOf(a)) > QuarterRank(quarterOf(b))
    \/ /\ yearOf(a) = yearOf(b)
       /\ quarterOf(a) = quarterOf(b)
       /\ IF tie = "idAsc" THEN a < b ELSE a > b

Ordered(tie) ==
    [i \in 1..NumOfferings |->
        CHOOSE o \in Offerings :
            Cardinality({p \in Offerings : Before(p, o, tie)}) = i - 1]

OrderedIdAsc == Ordered("idAsc")

OrderedIdDesc == Ordered("idDesc")

Matches(o, courseIds, instructorIds) ==
    /\ Len(courseIds) > 0 => Includes(courseIds, courseOf(o))
    /\ Len(instructorIds) > 0 => Includes(instructorIds, instructorOf(o))

searchOfferings(filters, tie) ==
    LET all == IF tie = "idAsc" THEN OrderedIdAsc ELSE OrderedIdDesc
        matching == SelectSeq(all,
                        LAMBDA o : Matches(o, filters.courseIds, filters.instructorIds))
        last == Min(filters.offset + filters.limit, Len(matching))
    IN  [data |-> SubSeq(matching, filters.offset + 1, last),
         count |-> Len(matching)]

(***************************************************************************)
(* SearchResults component                                                 *)
(***************************************************************************)
NoError == "null"

requirementIdsOf(o) ==
    SelectSeq(courseRequirements(courseOf(o)), LAMBDA r : r # NullRequirement)

\* variant: an offering is kept only when it has every selected requirement
filterResultsByEveryRequirement(data, requirements) ==
    IF Len(requirements) = 0 THEN data
    ELSE SelectSeq(data,
            LAMBDA o : \A i \in 1..Len(requirements) :
                          Includes(requirementIdsOf(o), requirements[i]))

filterResultsByRequirements(data, requirements) ==
    IF Len(requirements) = 0 THEN data
    ELSE SelectSeq(data,
            LAMBDA o : \E i \in 1..Len(requirements) :
                          Includes(requirementIdsOf(o), requirements[i]))

\* one more user operation of the session
UserOp == userOps < MaxUserOps /\ userOps' = userOps + 1

\* what the component renders
Panel ==
    IF loading THEN "loading"
    ELSE IF error # NoError THEN "error"
    ELSE IF Len(selectedCourses) = 0 /\ Len(selectedInstructors) = 0 THEN "noFilters"
    ELSE IF Len(results) = 0 THEN "noResults"
    ELSE "list"

SentinelRendered == Panel = "list" /\ hasMore /\ ~loadingMore

\* abortControllerRef.current.abort(): the controller of the latest request
\* is the only one that is not aborted yet
Abort(q) == [i \in 1..Len(q) |-> [q[i] EXCEPT !.aborted = TRUE]]

Request(kind, courses, instructors, requirements, offset, resultsLength) ==
    [kind |-> kind,
     filters |-> [courseIds |-> courses, instructorIds |-> instructors,
                  requirements |-> requirements, limit |-> PageSize,
                  offset |-> offset],
     resultsLength |-> resultsLength,
     aborted |-> FALSE]

resetPagination ==
    /\ results' = <<>>
    /\ currentOffset' = 0
    /\ hasMore' = TRUE
    /\ totalCount' = 0
    /\ error' = NoError

\* variant: no early return on an empty selection
fetchInitialResultsAlwaysFetches(courses, instructors, requirements, q) ==
    /\ inflight' = Append(Abort(q),
            Request("initial", courses, instructors, requirements, 0, 0))
    /\ loading' = TRUE
    /\ resetPagination
    /\ latest' = [kind |-> "initial", status |-> "pending",
                   superseded |-> {q[i].kind : i \in 1..Len(q)}]
    /\ moreOffsets' = {}
    /\ UNCHANGED loadingMore

\* fetchInitialResults as created by the render with the given props; q is
\* the list of requests in flight when it is called
fetchInitialResults(courses, instructors, requirements, q) ==
    IF Len(courses) = 0 /\ Len(instructors) = 0
    THEN /\ resetPagination
         /\ inflight' = q
         /\ latest' = [kind |-> "none", status |-> "idle", superseded |-> {}]
         /\ moreOffsets' = {}
         /\ UNCHANGED <<loading, loadingMore>>
    ELSE /\ inflight' = Append(Abort(q),
                Request("initial", courses, instructors, requirements, 0, 0))
         /\ loading' = TRUE
         /\ resetPagination
         /\ latest' = [kind |-> "initial", status |-> "pending",
                        superseded |-> {q[i].kind : i \in 1..Len(q)}]
         /\ moreOffsets' = {}
         /\ UNCHANGED loadingMore

\* the effect on [fetchInitialResults]: cleanup of the previous effect
\* (abort), then the fetch with the new props
InitialFetchEffect(courses, instructors, requirements) ==
    fetchInitialResults(courses, instructors, requirements, Abort(inflight))

fetchMoreResults ==
    IF loadingMore \/ ~hasMore
    THEN UNCHANGED <<queryVars, ghostVars>>
    ELSE /\ inflight' = Append(Abort(inflight),
                Request("more", selectedCourses, selectedInstructors,
                        selectedRequirements, currentOffset, Len(results)))
         /\ loadingMore' = TRUE
         /\ latest' = [kind |-> "more", status |-> "pending",
                        superseded |-> {inflight[i].kind : i \in 1..Len(inflight)}]
         /\ moreOffsets' = moreOffsets \cup {currentOffset}
         /\ UNCHANGED <<results, loading, error, hasMore, currentOffset, totalCount>>

\* IntersectionObserver callback; the observer watches the sentinel
ObserverCallback(isIntersecting) ==
    /\ SentinelRendered
    /\ IF isIntersecting /\ ~loadingMore /\ hasMore
       THEN fetchMoreResults
       ELSE UNCHANGED <<queryVars, ghostVars>>
    /\ UNCHANGED <<filterVars, boundVars>>

handleRetry ==
    /\ Panel = "error"
    /\ UserOp
    /\ fetchInitialResults(selectedCourses, selectedInstructors,
                           selectedRequirements, inflight)
    /\ UNCHANGED filterVars

\* setHasMore argument of fetchInitialResults
hasMoreAfterInitial(filteredResults, count) ==
    Len(filteredResults) = PageSize /\ Len(filteredResults) < count

\* variant: hasMore from the page size alone, without the total count
hasMoreAfterMoreFullPage(filteredResults, resultsLength, count) ==
    Len(filteredResults) = PageSize

\* setHasMore argument of fetchMoreResults; resultsLength is results.length
\* of the render that created the callback
hasMoreAfterMore(filteredResults, resultsLength, count) ==
    Len(filteredResults) = PageSize /\ resultsLength + Len(filteredResults) < count

Settle(r, status) ==
    IF r.aborted THEN latest ELSE [latest EXCEPT !.status = status]

\* the awaited searchOfferings call of request i resolves
FetchResolves(i, tie) ==
    LET r == inflight[i]
        result == searchOfferings(r.filters, tie)
        filteredResults == filterResultsByRequirements(result.data, r.filters.requirements)
    IN  /\ inflight' = RemoveAt(inflight, i)
        /\ latest' = Settle(r, "ok")
        /\ IF r.kind = "initial"
           THEN /\ results' = filteredResults
                /\ totalCount' = result.count
                /\ currentOffset' = PageSize
                /\ hasMore' = hasMoreAfterInitial(filteredResults, result.count)
                /\ loading' = FALSE
                /\ UNCHANGED loadingMore
           ELSE /\ results' = results \o filteredResults
                /\ currentOffset' = currentOffset + PageSize
                /\ hasMore' = hasMoreAfterMore(filteredResults, r.resultsLength,
                                                result.count)
                /\ loadingMore' = FALSE
                /\ UNCHANGED <<totalCount, loading>>
        /\ UNCHANGED <<error, moreOffsets, filterVars, boundVars>>

\* variant: a failure empties the list, as a failed first page does
FetchRejectsEmptiesList(i) ==
    LET r == inflight[i]
    IN  /\ inflight' = RemoveAt(inflight, i)
        /\ latest' = Settle(r, "failed")
        /\ IF r.kind = "initial"
           THEN /\ error' = "Failed to load search results"
                /\ loading' = FALSE
                /\ UNCHANGED loadingMore
           ELSE /\ error' = "Failed to load more results"
                /\ loadingMore' = FALSE
                /\ UNCHANGED loading
        /\ results' = <<>>
        /\ UNCHANGED <<hasMore, currentOffset, totalCount, moreOffsets,
                       filterVars, boundVars>>

\* variant: every error is swallowed like an AbortError
FetchRejectsSilently(i) ==
    LET r == inflight[i]
    IN  /\ inflight' = RemoveAt(inflight, i)
        /\ latest' = Settle(r, "failed")
        /\ IF r.kind = "initial"
           THEN loading' = FALSE /\ UNCHANGED loadingMore
           ELSE loadingMore' = FALSE /\ UNCHANGED loading
        /\ UNCHANGED <<error, results, hasMore, currentOffset, totalCount,
                       moreOffsets, filterVars, boundVars>>

\* the awaited searchOfferings call of request i throws the store's error
FetchRejects(i) ==
    LET r == inflight[i]
    IN  /\ inflight' = RemoveAt(inflight, i)
        /\ latest' = Settle(r, "failed")
        /\ IF r.kind = "initial"
           THEN /\ error' = "Failed to load search results"
                /\ loading' = FALSE
                /\ UNCHANGED loadingMore
           ELSE /\ error' = "Failed to load more results"
                /\ loadingMore' = FALSE
                /\ UNCHANGED loading
        /\ UNCHANGED <<results, hasMore, currentOffset, totalCount, moreOffsets,
                       filterVars, boundVars>>

(***************************************************************************)
(* SearchPage: the selection handlers.  Each handler sets the selection    *)
(* state of the page; the three setters of handleClearFilters are batched  *)
(* into one render.                                                        *)
(***************************************************************************)
\* variant: no check for an entry with the same id
handleAddCourseUnchecked(course) ==
    /\ selectedCourses' = Append(selectedCourses, course)
    /\ UNCHANGED <<selectedInstructors, selectedRequirements>>

handleAddCourse(course) ==
    /\ selectedCourses' = IF Includes(selectedCourses, course)
                          THEN selectedCourses
                          ELSE Append(selectedCourses, course)
    /\ UNCHANGED <<selectedInstructors, selectedRequirements>>

\* the remove button belongs to the chip of a selected course
handleRemoveCourse(courseId) ==
    /\ Includes(selectedCourses, courseId)
    /\ selectedCourses' = Filter(selectedCourses, Range(selectedCourses) \ {courseId})
    /\ UNCHANGED <<selectedInstructors, selectedRequirements>>

handleAddInstructor(instructor) ==
    /\ selectedInstructors' = IF Includes(selectedInstructors, instructor)
                              THEN selectedInstructors
                              ELSE Append(selectedInstructors, instructor)
    /\ UNCHANGED <<selectedCourses, selectedRequirements>>

handleRemoveInstructor(instructorId) ==
    /\ Includes(selectedInstructors, instructorId)
    /\ selectedInstructors' =
          Filter(selectedInstructors, Range(selectedInstructors) \ {instructorId})
    /\ UNCHANGED <<selectedCourses, selectedRequirements>>

\* variant: the id is appended whether or not it is selected
handleToggleRequirementAddsOnly(requirementId) ==
    /\ selectedRequirements' = Append(selectedRequirements, requirementId)
    /\ UNCHANGED <<selectedCourses, selectedInstructors>>

handleToggleRequirement(requirementId) ==
    /\ selectedRequirements' =
          IF Includes(selectedRequirements, requirementId)
          THEN Filter(selectedRequirements,
                      Range(selectedRequirements) \ {requirementId})
          ELSE Append(selectedRequirements, requirementId)
    /\ UNCHANGED <<selectedCourses, selectedInstructors>>

\* variant: the requirement selection is left as it is
handleClearFiltersKeepsRequirements ==
    /\ Len(selectedCourses) > 0 \/ Len(selectedInstructors) > 0
          \/ Len(selectedRequirements) > 0
    /\ selectedCourses' = <<>>
    /\ selectedInstructors' = <<>>
    /\ UNCHANGED selectedRequirements

\* the button is rendered when some selection is not empty
handleClearFilters ==
    /\ Len(selectedCourses) > 0 \/ Len(selectedInstructors) > 0
          \/ Len(selectedRequirements) > 0
    /\ selectedCourses' = <<>>
    /\ selectedInstructors' = <<>>
    /\ selectedRequirements' = <<>>

\* SearchResults is re-rendered with the selection as props; new props re-run
\* its effect on [fetchInitialResults]
SelectionRerender ==
    IF filterVars' = filterVars
    THEN UNCHANGED <<queryVars, boundVars, ghostVars>>
    ELSE /\ UserOp
         /\ InitialFetchEffect(selectedCourses', selectedInstructors',
                               selectedRequirements')

(***************************************************************************)
(* The query service: searchCourses / searchInstructors.  Strings are      *)
(* sequences of characters.  '../services/search' resolves to search.js    *)
(* or to search.ts, depending on the build.                                *)
(***************************************************************************)
Alphabet == {"a", "b", " "}
SpecialChars == {"(", ")", "%", "*", ","}
SearchModules == {"search.js", "search.ts"}

codeOf(c) == IF c = "c1" THEN <<"A", "b">> ELSE <<"b", "b">>

titleOf(c) == IF c = "c1" THEN <<"b", "a">> ELSE <<"a", "b", "b">>

StoredInstructors == {"i1", "i2"}

nameOf(i) == IF i = "i1" THEN <<"B", "a", "b">> ELSE <<"a", " ", "b">>

Lower(ch) == IF ch = "A" THEN "a" ELSE IF ch = "B" THEN "b" ELSE ch

LowerStr(s) == [i \in 1..Len(s) |-> Lower(s[i])]

CharRank(ch) == IF ch = " " THEN 0 ELSE IF Lower(ch) = "a" THEN 1 ELSE 2

RECURSIVE LessStr(_, _)
LessStr(s, t) ==
    IF t = <<>> THEN FALSE
    ELSE IF s = <<>> THEN TRUE
    ELSE IF CharRank(Head(s)) # CharRank(Head(t))
         THEN CharRank(Head(s)) < CharRank(Head(t))
    ELSE LessStr(Tail(s), Tail(t))

RECURSIVE Trim(_)
Trim(s) ==
    IF s = <<>> THEN s
    ELSE IF Head(s) = " " THEN Trim(Tail(s))
    ELSE IF s[Len(s)] = " " THEN Trim(SubSeq(s, 1, Len(s) - 1))
    ELSE s

sanitizeForOr(value) ==
    LET t == Trim(value)
    IN  [i \in 1..Len(t) |-> IF t[i] \in SpecialChars THEN " " ELSE t[i]]

\* column ILIKE %pattern%
ILike(column, pattern) ==
    \E i \in 0..(Len(column) - Len(pattern)) :
        SubSeq(LowerStr(column), i + 1, i + Len(pattern)) = LowerStr(pattern)

\* the rows of a set in ascending order of a text column, cut at the limit
RECURSIVE OrderedBy(_, _, _)
OrderedBy(rows, column, limit) ==
    IF rows = {} \/ limit = 0 THEN <<>>
    ELSE LET first == CHOOSE r \in rows :
                        \A other \in rows \ {r} : LessStr(column[r], column[other])
         IN  <<first>> \o OrderedBy(rows \ {first}, column, limit - 1)

\* the early return of the service: no request is sent to the store
ServiceSkips(searchQuery, module) ==
    IF module = "search.js"
    THEN Len(searchQuery) < 3
    ELSE Len(Trim(searchQuery)) < 2

Pattern(searchQuery, module) ==
    IF module = "search.js" THEN searchQuery ELSE sanitizeForOr(searchQuery)

searchCourses(searchQuery, module, outcome) ==
    IF ServiceSkips(searchQuery, module) \/ outcome = "error" THEN <<>>
    ELSE LET q == Pattern(searchQuery, module)
         IN  OrderedBy({c \in Courses : ILike(titleOf(c), q) \/ ILike(codeOf(c), q)},
                       [c \in Courses |-> titleOf(c)], LookupLimit)

searchInstructors(searchQuery, module, outcome) ==
    IF ServiceSkips(searchQuery, module) \/ outcome = "error" THEN <<>>
    ELSE LET q == Pattern(searchQuery, module)
         IN  OrderedBy({i \in StoredInstructors : ILike(nameOf(i), q)},
                       [i \in StoredInstructors |-> nameOf(i)], LookupLimit)

(***************************************************************************)
(* useSearch hook                                                          *)
(***************************************************************************)
NoTimer == [pending |-> FALSE, args |-> <<>>, elapsed |-> 0]
NoSearch == [status |-> "idle", raced |-> FALSE, combined |-> <<>>, failed |-> FALSE]

combinedResults(courses, instructors) ==
    [i \in 1..Len(courses) |-> [type |-> "course", id |-> courses[i]]]
    \o [i \in 1..Len(instructors) |-> [type |-> "instructor", id |-> instructors[i]]]

\* debounce: executedFunction clears the pending timer and sets a new one
debouncedSearch(searchQuery) ==
    timeout' = [pending |-> TRUE, args |-> searchQuery, elapsed |-> 0]

Supersede(q) == [i \in 1..Len(q) |-> [q[i] EXCEPT !.superseded = TRUE]]

\* the keystrokes: one more character, or the last character deleted
InputValues ==
    {Append(query, ch) : ch \in Alphabet}
    \cup (IF query = <<>> THEN {} ELSE {SubSeq(query, 1, Len(query) - 1)})

\* handleInputChange, then the effect on [query]
handleInputChange(value) ==
    /\ UserOp
    /\ query' = value
    /\ showDropdown' = IF value = <<>> THEN FALSE ELSE showDropdown
    /\ IF value # query
       THEN debouncedSearch(value)
       ELSE UNCHANGED timeout
    /\ UNCHANGED <<searchResults, searchLoading, lookups, searchModule, latestSearch>>

\* time passes while the timer is pending
Tick ==
    /\ timeout.pending
    /\ timeout.elapsed < DebounceWait
    /\ timeout' = [timeout EXCEPT !.elapsed = timeout.elapsed + TickMs]
    /\ UNCHANGED <<query, searchResults, searchLoading, showDropdown, lookups,
                   searchModule, latestSearch, userOps>>

\* the timer expires: later() runs the debounced function up to its await
TimerFires ==
    /\ timeout.pending
    /\ timeout.elapsed >= DebounceWait
    /\ timeout' = NoTimer
    /\ LET searchQuery == timeout.args
       IN  IF Len(searchQuery) < MinQueryLength
           THEN /\ searchResults' = <<>>
                /\ showDropdown' = FALSE
                /\ lookups' = Supersede(lookups)
                /\ latestSearch' = NoSearch
                /\ UNCHANGED searchLoading
           ELSE IF ServiceSkips(searchQuery, searchModule)
           THEN \* both services return [] without awaiting the store
                /\ searchResults' = <<>>
                /\ showDropdown' = FALSE
                /\ searchLoading' = FALSE
                /\ lookups' = Supersede(lookups)
                /\ latestSearch' = [status |-> "done", raced |-> lookups # <<>>,
                                    combined |-> <<>>, failed |-> FALSE]
           ELSE /\ searchLoading' = TRUE
                /\ lookups' = Append(Supersede(lookups),
                                     [searchQuery |-> searchQuery, superseded |-> FALSE])
                /\ latestSearch' = [status |-> "pending", raced |-> lookups # <<>>,
                                    combined |-> <<>>, failed |-> FALSE]
                /\ UNCHANGED <<searchResults, showDropdown>>
    /\ UNCHANGED <<query, searchModule, userOps>>

\* both lookups of invocation i have returned (Promise.all); a lookup whose
\* store request fails returns []
LookupsSettle(i, courseOutcome, instructorOutcome) ==
    LET l == lookups[i]
        courses == searchCourses(l.searchQuery, searchModule, courseOutcome)
        instructors == searchInstructors(l.searchQuery, searchModule, instructorOutcome)
        combined == combinedResults(courses, instructors)
    IN  /\ lookups' = RemoveAt(lookups, i)
        /\ searchResults' = combined
        /\ showDropdown' = (Len(combined) > 0)
        /\ searchLoading' = FALSE
        /\ latestSearch' = IF l.superseded THEN latestSearch
                           ELSE [latestSearch EXCEPT
                                     !.status = "done",
                                     !.combined = combined,
                                     !.failed = \/ courseOutcome = "error"
                                                \/ instructorOutcome = "error"]
        /\ UNCHANGED <<query, timeout, searchModule, userOps>>

\* the search bar after mount: the effect has called debouncedSearch('')
HookMounted ==
    /\ query = <<>>
    /\ searchResults = <<>>
    /\ searchLoading = FALSE
    /\ showDropdown = FALSE
    /\ timeout = [pending |-> TRUE, args |-> <<>>, elapsed |-> 0]
    /\ lookups = <<>>
    /\ searchModule \in SearchModules
    /\ latestSearch = NoSearch

(***************************************************************************)
(* The URL of the search page.  A parameter that is absent is the empty    *)
(* string or sequence: the code tests the parameters for truthiness only.  *)
(* The text of a JSON array of ids is a sequence of tokens.                *)
(***************************************************************************)
RECURSIVE JoinIds(_)
JoinIds(ids) ==
    IF Len(ids) <= 1 THEN ids
    ELSE <<Head(ids), ",">> \o JoinIds(Tail(ids))

JSONstringify(ids) == <<"[">> \o JoinIds(ids) \o <<"]">>

RECURSIVE SplitIds(_)
SplitIds(tokens) ==
    IF tokens = <<>> THEN [ok |-> FALSE, value |-> <<>>]
    ELSE IF Head(tokens) \in {"[", "]", ","} THEN [ok |-> FALSE, value |-> <<>>]
    ELSE IF Len(tokens) = 1 THEN [ok |-> TRUE, value |-> tokens]
    ELSE IF tokens[2] # "," THEN [ok |-> FALSE, value |-> <<>>]
    ELSE LET rest == SplitIds(SubSeq(tokens, 3, Len(tokens)))
         IN  [ok |-> rest.ok, value |-> <<Head(tokens)>> \o rest.value]

\* ok is FALSE where JSON.parse throws
JSONparse(text) ==
    IF Len(text) < 2 \/ text[1] # "[" \/ text[Len(text)] # "]"
    THEN [ok |-> FALSE, value |-> <<>>]
    ELSE IF Len(text) = 2 THEN [ok |-> TRUE, value |-> <<>>]
    ELSE SplitIds(SubSeq(text, 2, Len(text) - 1))

encodeURIComponent(text) ==
    [i \in 1..Len(text) |->
        IF text[i] = "[" THEN "%5B"
        ELSE IF text[i] = "]" THEN "%5D"
        ELSE IF text[i] = "," THEN "%2C"
        ELSE text[i]]

decodeURIComponent(text) ==
    [i \in 1..Len(text) |->
        IF text[i] = "%5B" THEN "["
        ELSE IF text[i] = "%5D" THEN "]"
        ELSE IF text[i] = "%2C" THEN ","
        ELSE text[i]]

\* a percent sign that starts no escape: decodeURIComponent throws
URIMalformed(text) == \E i \in 1..Len(text) : text[i] = "%"

NoSearchState ==
    [present |-> FALSE, selectedCourses |-> <<>>, selectedInstructors |-> <<>>,
     selectedRequirements |-> <<>>]

\* new URLSearchParams()
NoParams ==
    [selectedType |-> "", selectedId |-> "", selectedTitle |-> <<>>,
     selectedCode |-> <<>>, requirements |-> <<>>, searchState |-> NoSearchState]

NoEffects == [read |-> FALSE, write |-> FALSE]

MountEffects == [read |-> TRUE, write |-> TRUE]

NothingOpened == [courses |-> <<>>, instructors |-> <<>>, requirements |-> <<>>]

EffectsSettled == ~pending.read /\ ~pending.write

\* variant: the requirements read from the URL are set whether or not the
\* value could be parsed
ReadUrlUnguarded(params, courses, instructors, requirements) ==
    LET selected == /\ params.selectedType # ""
                    /\ params.selectedId # ""
                    /\ params.selectedTitle # <<>>
        reqArray == JSONparse(decodeURIComponent(params.requirements))
        restores == params.requirements # <<>>
    IN  [courses |-> IF selected /\ params.selectedType = "course"
                     THEN <<params.selectedId>> ELSE courses,
         instructors |-> IF selected /\ params.selectedType = "instructor"
                         THEN <<params.selectedId>> ELSE instructors,
         requirements |-> IF restores THEN reqArray.value ELSE requirements,
         setsRequirements |-> restores]

\* the effect on [searchParams]: the selection it sets, and whether it calls
\* setSelectedRequirements
ReadUrl(params, courses, instructors, requirements) ==
    LET selected == /\ params.selectedType # ""
                    /\ params.selectedId # ""
                    /\ params.selectedTitle # <<>>
        reqArray == JSONparse(decodeURIComponent(params.requirements))
        restores == /\ params.requirements # <<>>
                    /\ ~URIMalformed(params.requirements)
                    /\ reqArray.ok
    IN  [courses |-> IF selected /\ params.selectedType = "course"
                     THEN <<params.selectedId>> ELSE courses,
         instructors |-> IF selected /\ params.selectedType = "instructor"
                         THEN <<params.selectedId>> ELSE instructors,
         requirements |-> IF restores THEN reqArray.value ELSE requirements,
         setsRequirements |-> restores]

\* the effect on [selectedRequirements, searchParams, setSearchParams]: the
\* parameters it passes to setSearchParams
WriteUrl(params, requirements) ==
    IF Len(requirements) > 0
    THEN [params EXCEPT !.requirements =
             encodeURIComponent(JSONstringify(requirements))]
    ELSE [params EXCEPT !.requirements = <<>>]

\* the effects of SearchPage after one render: each effect whose dependencies
\* changed runs with the state and the URL of that render
UrlEffects ==
    /\ page = "search"
    /\ ~EffectsSettled
    /\ LET read == ReadUrl(searchParams, selectedCourses, selectedInstructors,
                           selectedRequirements)
           written == WriteUrl(searchParams, selectedRequirements)
       IN  /\ IF pending.read
              THEN /\ selectedCourses' = read.courses
                   /\ selectedInstructors' = read.instructors
                   /\ selectedRequirements' = read.requirements
              ELSE UNCHANGED filterVars
           /\ searchParams' = IF pending.write THEN written ELSE searchParams
           /\ pending' = [read |-> searchParams' # searchParams,
                          write |-> \/ searchParams' # searchParams
                                    \/ pending.read /\ read.setsRequirements]
    /\ UNCHANGED <<page, lastOp, opened>>

\* SearchPage is mounted at the given URL
MountSearchPage(params) ==
    /\ page' = "search"
    /\ searchParams' = params
    /\ selectedCourses' = <<>>
    /\ selectedInstructors' = <<>>
    /\ selectedRequirements' = <<>>
    /\ pending' = MountEffects

\* the entries of the search dropdown of the home page
DropdownResults ==
    {[type |-> "course", id |-> c] : c \in Courses}
    \cup {[type |-> "instructor", id |-> i] : i \in Instructors}

\* useSearch.handleResultSelect: navigate to /search with the selected item
handleResultSelect(result) ==
    /\ page = "home"
    /\ MountSearchPage(
          [NoParams EXCEPT
              !.selectedType = result.type,
              !.selectedId = result.id,
              !.selectedTitle = IF result.type = "course" THEN titleOf(result.id)
                                ELSE nameOf(result.id),
              !.selectedCode = IF result.type = "course" THEN codeOf(result.id)
                               ELSE <<>>])
    /\ lastOp' = "select"
    /\ UNCHANGED opened

\* the search page opened by its address
OpenSearchPage ==
    /\ page = "home"
    /\ MountSearchPage(NoParams)
    /\ lastOp' = "open"
    /\ UNCHANGED opened

\* OfferingCard.handleResultClick; a card is rendered for an offering of the
\* result list, which is empty without a course or an instructor
handleResultClick ==
    /\ page = "search"
    /\ EffectsSettled
    /\ Len(selectedCourses) > 0 \/ Len(selectedInstructors) > 0
    /\ LET searchState ==
              [present |-> TRUE,
               selectedCourses |-> encodeURIComponent(JSONstringify(selectedCourses)),
               selectedInstructors |->
                   encodeURIComponent(JSONstringify(selectedInstructors)),
               selectedRequirements |->
                   encodeURIComponent(JSONstringify(selectedRequirements))]
       IN  searchParams' = [searchParams EXCEPT !.searchState = searchState]
    /\ page' = "detail"
    /\ opened' = [courses |-> selectedCourses, instructors |-> selectedInstructors,
                  requirements |-> selectedRequirements]
    /\ selectedCourses' = <<>>
    /\ selectedInstructors' = <<>>
    /\ selectedRequirements' = <<>>
    /\ lastOp' = "card"
    /\ UNCHANGED pending

\* DetailPage.handleBackToSearch, with searchState in the URL
handleBackToSearch ==
    /\ page = "detail"
    /\ searchParams.searchState.present
    /\ LET searchState == searchParams.searchState
           courses == JSONparse(decodeURIComponent(searchState.selectedCourses))
           instructors ==
               JSONparse(decodeURIComponent(searchState.selectedInstructors))
           requirements ==
               JSONparse(decodeURIComponent(searchState.selectedRequirements))
           withCourse ==
               IF Len(courses.value) > 0
               THEN [NoParams EXCEPT
                        !.selectedType = "course",
                        !.selectedId = courses.value[1],
                        !.selectedTitle = titleOf(courses.value[1]),
                        !.selectedCode = codeOf(courses.value[1])]
               ELSE NoParams
           withInstructor ==
               IF Len(instructors.value) > 0
               THEN [withCourse EXCEPT
                        !.selectedType = "instructor",
                        !.selectedId = instructors.value[1],
                        !.selectedTitle = nameOf(instructors.value[1])]
               ELSE withCourse
           params ==
               IF Len(requirements.value) > 0
               THEN [withInstructor EXCEPT
                        !.requirements =
                            encodeURIComponent(JSONstringify(requirements.value))]
               ELSE withInstructor
           parsed ==
               /\ ~URIMalformed(searchState.selectedCourses)
               /\ ~URIMalformed(searchState.selectedInstructors)
               /\ ~URIMalformed(searchState.selectedRequirements)
               /\ courses.ok /\ instructors.ok /\ requirements.ok
       IN  /\ IF parsed
              THEN MountSearchPage(params)
              ELSE MountSearchPage(NoParams)
           /\ lastOp' = IF lastOp = "card" THEN "back"
                        ELSE IF parsed THEN "return" ELSE "malformed"
    /\ UNCHANGED opened

\* values of a requirements parameter of an address that was typed or
\* edited: texts that are the encoded JSON of an array of ids and texts
\* that are not
AddressTexts ==
    {encodeURIComponent(JSONstringify(<<"r1">>)),
     <<"[", "r2", "]">>,
     <<"[", "r1", ",", "]">>,
     <<"%5B", "r1">>,
     <<"r1">>,
     <<"%">>}

Malformed(text) == URIMalformed(text) \/ ~JSONparse(decodeURIComponent(text)).ok

\* the search page opened by an address with a requirements parameter
OpenSearchPageAt(requirements) ==
    /\ page = "home"
    /\ MountSearchPage([NoParams EXCEPT !.requirements = requirements])
    /\ lastOp' = IF Malformed(requirements) THEN "malformed" ELSE "address"
    /\ UNCHANGED opened

\* the detail page opened by an address with a searchState parameter
OpenDetailPageAt(requirements) ==
    /\ page = "home"
    /\ page' = "detail"
    /\ searchParams' =
          [NoParams EXCEPT
              !.searchState =
                  [present |-> TRUE,
                   selectedCourses |-> encodeURIComponent(JSONstringify(<<"c1">>)),
                   selectedInstructors |-> encodeURIComponent(JSONstringify(<<>>)),
                   selectedRequirements |-> requirements]]
    /\ lastOp' = "address"
    /\ UNCHANGED <<filterVars, pending, opened>>

\* the search page at /search, its effects done
AtSearch ==
    /\ page = "search"
    /\ searchParams = NoParams
    /\ pending = NoEffects
    /\ lastOp = "open"
    /\ opened = NothingOpened

AtHome ==
    /\ page = "home"
    /\ searchParams = NoParams
    /\ pending = NoEffects
    /\ lastOp = "none"
    /\ opened = NothingOpened

(***************************************************************************)
(* Specification of the offering query under arbitrary interleaving        *)
(***************************************************************************)
\* useState([]) of the three selections
NoSelection ==
    /\ selectedCourses = <<>>
    /\ selectedInstructors = <<>>
    /\ selectedRequirements = <<>>

\* SearchResults after its first render with an empty selection
ResultsInit ==
    /\ results = <<>>
    /\ loading = FALSE
    /\ loadingMore = FALSE
    /\ error = NoError
    /\ hasMore = TRUE
    /\ currentOffset = 0
    /\ totalCount = 0
    /\ inflight = <<>>
    /\ userOps = 0
    /\ latest = [kind |-> "none", status |-> "idle", superseded |-> {}]
    /\ moreOffsets = {}

QueryInit == NoSelection /\ ResultsInit

\* the search bar is not part of the search page
HookUnmounted ==
    /\ query = <<>>
    /\ searchResults = <<>>
    /\ searchLoading = FALSE
    /\ showDropdown = FALSE
    /\ timeout = NoTimer
    /\ lookups = <<>>
    /\ searchModule = "search.js"
    /\ latestSearch = NoSearch

NotCalled == [called |-> FALSE]

HarnessIdle == arg = NotCalled /\ ret = NotCalled

Init == QueryInit /\ HookUnmounted /\ HarnessIdle /\ AtSearch

AddCourse ==
    /\ \E c \in Courses : handleAddCourse(c)
    /\ SelectionRerender
    /\ UNCHANGED otherVars

RemoveCourse ==
    /\ \E c \in Courses : handleRemoveCourse(c)
    /\ SelectionRerender
    /\ UNCHANGED otherVars

AddInstructor ==
    /\ \E i \in Instructors : handleAddInstructor(i)
    /\ SelectionRerender
    /\ UNCHANGED otherVars

RemoveInstructor ==
    /\ \E i \in Instructors : handleRemoveInstructor(i)
    /\ SelectionRerender
    /\ UNCHANGED otherVars

ToggleRequirement ==
    /\ \E r \in COURSE_REQUIREMENTS : handleToggleRequirement(r)
    /\ SelectionRerender
    /\ UNCHANGED otherVars

ClearFilters ==
    /\ handleClearFilters
    /\ SelectionRerender
    /\ UNCHANGED otherVars

Observe ==
    /\ \E b \in BOOLEAN : ObserverCallback(b)
    /\ UNCHANGED otherVars

Retry == handleRetry /\ UNCHANGED otherVars

Resolve ==
    /\ \E i \in 1..Len(inflight), tie \in TieOrders : FetchResolves(i, tie)
    /\ UNCHANGED otherVars

Reject ==
    /\ \E i \in 1..Len(inflight) : FetchRejects(i)
    /\ UNCHANGED otherVars

Next ==
    \/ AddCourse
    \/ RemoveCourse
    \/ AddInstructor
    \/ RemoveInstructor
    \/ ToggleRequirement
    \/ ClearFilters
    \/ Observe
    \/ Retry
    \/ Resolve
    \/ Reject

Spec == Init /\ [][Next]_vars

(***************************************************************************)
(* Specification of the offering query used by one caller at a time: the   *)
(* selection changes and retries happen only while no request is in        *)
(* flight.                                                                 *)
(***************************************************************************)
Quiescent == inflight = <<>>

NextWalk ==
    \/ Quiescent /\ AddCourse
    \/ Quiescent /\ RemoveCourse
    \/ Quiescent /\ AddInstructor
    \/ Quiescent /\ RemoveInstructor
    \/ Quiescent /\ ToggleRequirement
    \/ Quiescent /\ ClearFilters
    \/ Observe
    \/ Quiescent /\ Retry
    \/ Resolve
    \/ Reject

SpecWalk == Init /\ [][NextWalk]_vars

(***************************************************************************)
(* Specification of the incremental search                                 *)
(***************************************************************************)
InputChange ==
    /\ \E value \in InputValues : handleInputChange(value)
    /\ UNCHANGED <<filterVars, queryVars, ghostVars, harnessVars, urlVars>>

TimePasses == Tick /\ UNCHANGED <<filterVars, queryVars, ghostVars, harnessVars, urlVars>>

TimerExpires == TimerFires /\ UNCHANGED <<filterVars, queryVars, ghostVars, harnessVars, urlVars>>

LookupsReturn ==
    /\ \E i \in 1..Len(lookups), co \in {"ok", "error"}, io \in {"ok", "error"} :
          LookupsSettle(i, co, io)
    /\ UNCHANGED <<filterVars, queryVars, ghostVars, harnessVars, urlVars>>

InitSearch == QueryInit /\ HookMounted /\ HarnessIdle /\ AtHome

NextSearch ==
    \/ InputChange
    \/ TimePasses
    \/ TimerExpires
    \/ LookupsReturn

SpecSearch == InitSearch /\ [][NextSearch]_vars

(***************************************************************************)
(* Specification of one fetch followed by the requirement post-filter:     *)
(* the lines `result = await searchOfferings(filters)` and                 *)
(* `filterResultsByRequirements(result.data)` on arbitrary filters.        *)
(***************************************************************************)
UnknownRequirement == "natural_sciences"

CourseSelections == {<<>>, <<"c1">>, <<"c2">>, <<"c1", "c2">>}

InstructorSelections == {<<>>, <<"i1">>}

RequirementIds == Requirements \cup {UnknownRequirement}

RequirementSelections ==
    {<<>>}
    \cup {<<r>> : r \in RequirementIds}
    \cup {s \in RequirementIds \X RequirementIds : s[1] # s[2]}

FetchArguments ==
    {[called |-> TRUE,
      filters |-> [courseIds |-> cs, instructorIds |-> is, requirements |-> rs,
                   limit |-> PageSize, offset |-> k * PageSize],
      tie |-> tie] :
        cs \in CourseSelections, is \in InstructorSelections,
        rs \in RequirementSelections, k \in 0..2, tie \in TieOrders}

FetchAndFilter ==
    /\ arg.called
    /\ ~ret.called
    /\ LET result == searchOfferings(arg.filters, arg.tie)
       IN  ret' = [called |-> TRUE,
                   data |-> result.data,
                   count |-> result.count,
                   filtered |-> filterResultsByRequirements(result.data,
                                                           arg.filters.requirements)]
    /\ UNCHANGED <<arg, filterVars, queryVars, boundVars, ghostVars, searchVars,
                   urlVars>>

InitFilter ==
    /\ QueryInit
    /\ HookUnmounted
    /\ AtSearch
    /\ arg \in {a \in FetchArguments :
                  Len(a.filters.courseIds) > 0 \/ Len(a.filters.instructorIds) > 0}
    /\ ret = NotCalled

NextFilter == FetchAndFilter

SpecFilter == InitFilter /\ [][NextFilter]_vars

(***************************************************************************)
(* Properties                                                              *)
(***************************************************************************)
FiltersSelected == Len(selectedCourses) > 0 \/ Len(selectedInstructors) > 0

CurrentFilters(offset) ==
    [courseIds |-> selectedCourses, instructorIds |-> selectedInstructors,
     requirements |-> selectedRequirements, limit |-> PageSize, offset |-> offset]

\* the first page the store can return for the current selection, after the
\* requirement filter
FirstPages ==
    {filterResultsByRequirements(searchOfferings(CurrentFilters(0), tie).data,
                                 selectedRequirements) : tie \in TieOrders}

\* C1: when a fetchInitial superseded an earlier fetchInitial that was still
\* in flight, and every request has completed (the latest one successfully),
\* the result list is the first page of the current selection, whatever the
\* order of completion.
C1_SecondFetchInitialWins ==
    (/\ inflight = <<>>
     /\ latest.kind = "initial"
     /\ latest.status = "ok"
     /\ latest.superseded = {"initial"})
    => results \in FirstPages

\* C2: the response of a fetchMore request that was canceled by a later
\* fetchInitial changes neither the result list, nor the offset, nor hasMore.
C2_CanceledFetchMoreChangesNothing ==
    [][\A i \in 1..Len(inflight) :
          (/\ inflight[i].kind = "more"
           /\ inflight[i].aborted
           /\ inflight' = RemoveAt(inflight, i))
          => UNCHANGED <<results, currentOffset, hasMore>>]_vars

\* number of offerings of the store that match the current course and
\* instructor selection
MatchingOfferings ==
    {o \in Offerings : Matches(o, selectedCourses, selectedInstructors)}

WalkSettled ==
    /\ Quiescent
    /\ error = NoError
    /\ FiltersSelected
    /\ Len(selectedRequirements) = 0

IssuesFetchMore ==
    /\ Len(inflight') = Len(inflight) + 1
    /\ inflight'[Len(inflight')].kind = "more"

\* C4: with no requirement selected and no failure, after fetchInitial and
\* any number of fetchMore calls the list holds min(offset, N) offerings,
\* the offset being a multiple of the page size, hasMore is true exactly
\* while fewer than N offerings are loaded, and fetchMore issues no request
\* once hasMore is false.
C4_PaginationCounts ==
    /\ [](WalkSettled =>
            /\ currentOffset >= PageSize
            /\ currentOffset % PageSize = 0
            /\ Len(results) = Min(currentOffset, Cardinality(MatchingOfferings))
            /\ hasMore = (Len(results) < Cardinality(MatchingOfferings)))
    /\ [][IssuesFetchMore => hasMore]_vars

C4_Witness ==
    /\ WalkSettled
    /\ Cardinality(MatchingOfferings) > 2 * PageSize
    /\ currentOffset = 3 * PageSize
    /\ Len(results) = Cardinality(MatchingOfferings)
    /\ ~hasMore

\* C5: the order of the store is total and the same on every request, so
\* a complete walk (hasMore false) holds every matching offering exactly once.
C5_EachOfferingExactlyOnce ==
    (WalkSettled /\ ~hasMore) =>
        /\ Range(results) = MatchingOfferings
        /\ Len(results) = Cardinality(MatchingOfferings)

\* C6: fetchMore issues a request only when no fetchMore is in flight and
\* hasMore is true; at most one fetchMore request is in flight; no offset is
\* requested twice between two fetchInitial calls.
C6_FetchMoreGuard ==
    /\ [](Cardinality({i \in 1..Len(inflight) : inflight[i].kind = "more"}) <= 1)
    /\ [][IssuesFetchMore =>
            /\ ~loadingMore
            /\ hasMore
            /\ currentOffset \notin moreOffsets]_vars

FetchInitialCalled ==
    \/ filterVars' # filterVars
    \/ error # NoError /\ error' = NoError

\* C7: a fetchInitial with no course and no instructor selected issues no
\* request and leaves the result list empty, whatever requirements are
\* selected.
C7_EmptySelectionShortCircuits ==
    [][(FetchInitialCalled /\ selectedCourses' = <<>> /\ selectedInstructors' = <<>>)
          => /\ inflight' = Abort(inflight)
             /\ results' = <<>>]_vars

C7_Witness ==
    /\ ~FiltersSelected
    /\ Len(selectedRequirements) > 0
    /\ userOps > 1
    /\ inflight # <<>>
    /\ results = <<>>

\* C9: while the latest fetch has failed and no new fetch was started, the
\* panel shows the error state, never 'no results found', 'no filters
\* applied' or the list; the panel is always one of the five states.
C9_FailureIsDistinctState ==
    /\ Panel \in {"loading", "error", "noFilters", "noResults", "list"}
    /\ latest.status = "failed" => (error # NoError /\ Panel = "error")

C9_Witness ==
    /\ latest.status = "failed"
    /\ Panel = "error"
    /\ results = <<>>
    /\ FiltersSelected

\* the requirement ids tagged on the course of an offering
TagsOf(o) == {r \in Requirements : Includes(courseRequirements(courseOf(o)), r)}

\* C8: the post-filter keeps an offering iff no requirement is selected or
\* one of the requirements of its course is selected; it keeps the order and
\* adds nothing; the store's answer does not depend on the requirements.
C8_RequirementPostFilter ==
    ret.called =>
        LET selected == arg.filters.requirements
            unconstrained == searchOfferings([arg.filters EXCEPT !.requirements = <<>>],
                                             arg.tie)
        IN  /\ \A k \in 1..Len(ret.data) :
                  Includes(ret.filtered, ret.data[k])
                  <=> (Len(selected) = 0 \/ TagsOf(ret.data[k]) \cap Range(selected) # {})
            /\ Range(ret.filtered) \subseteq Range(ret.data)
            /\ ret.filtered = Filter(ret.data, Range(ret.filtered))
            /\ ret.data = unconstrained.data
            /\ ret.count = Cardinality({o \in Offerings :
                              Matches(o, arg.filters.courseIds, arg.filters.instructorIds)})

\* two requirements selected, an offering with only one of them is kept and
\* an offering with none of them is dropped
C8_Witness ==
    /\ ret.called
    /\ Len(arg.filters.requirements) = 2
    /\ \E k \in 1..Len(ret.data) :
          /\ Cardinality(TagsOf(ret.data[k]) \cap Range(arg.filters.requirements)) = 1
          /\ Includes(ret.filtered, ret.data[k])
    /\ \E k \in 1..Len(ret.data) : ~Includes(ret.filtered, ret.data[k])

\* C3: when a debounced lookup was issued while an earlier one was still in
\* flight and all responses have arrived, the results and the dropdown are
\* those of the later query.
C3_LastQueryWins ==
    (/\ lookups = <<>>
     /\ ~timeout.pending
     /\ latestSearch.status = "done"
     /\ latestSearch.raced)
    => /\ searchResults = latestSearch.combined
       /\ showDropdown = (Len(latestSearch.combined) > 0)

IssuesLookups == Len(lookups') = Len(lookups) + 1

TimerExpired == timeout.pending /\ ~timeout'.pending

\* C10: lookups are issued only when the timer has run the full debounce
\* delay since the last input change, and then for the current input; every
\* input change restarts the timer; when the timer expires on an input of at
\* least 2 characters, the lookups are issued to the query service.
C10_DebouncedLookups ==
    [][/\ IssuesLookups =>
            /\ timeout.pending
            /\ timeout.elapsed >= DebounceWait
            /\ lookups'[Len(lookups')].searchQuery = query
       /\ query' # query =>
            timeout' = [pending |-> TRUE, args |-> query', elapsed |-> 0]
       /\ (TimerExpired /\ Len(timeout.args) >= MinQueryLength) => IssuesLookups]_vars

\* C11: when the input becomes shorter than 2 characters, the results are
\* cleared and the dropdown is hidden in the step of the input change itself,
\* and no lookup is issued for that input.
C11_ShortInputClearsImmediately ==
    [][/\ (query' # query /\ Len(query') < MinQueryLength) =>
            /\ searchResults' = <<>>
            /\ showDropdown' = FALSE
       /\ IssuesLookups =>
            Len(lookups'[Len(lookups')].searchQuery) >= MinQueryLength]_vars

NoDuplicates(s) == \A i, j \in 1..Len(s) : s[i] = s[j] => i = j

\* the selection after one operation: one new id at the end, or some ids
\* taken out with the others left in their order
InsertionOrderKept(old, new) ==
    \/ new = old
    \/ /\ Len(new) = Len(old) + 1
       /\ SubSeq(new, 1, Len(old)) = old
       /\ ~Includes(old, new[Len(new)])
    \/ /\ Len(new) < Len(old)
       /\ new = Filter(old, Range(new))

RequirementOrders ==
    RequirementSelections
    \cup {s \in RequirementIds \X RequirementIds \X RequirementIds :
            s[1] # s[2] /\ s[1] # s[3] /\ s[2] # s[3]}

InitToggle ==
    /\ selectedCourses = <<>>
    /\ selectedInstructors = <<>>
    /\ ResultsInit
    /\ HookUnmounted
    /\ AtSearch
    /\ \E s \in RequirementOrders, r \in RequirementIds :
          /\ selectedRequirements = s
          /\ arg = [called |-> TRUE, requirementId |-> r, original |-> s]
    /\ ret = [called |-> TRUE, toggles |-> 0]

ToggleAgain ==
    /\ ret.toggles < 2
    /\ handleToggleRequirement(arg.requirementId)
    /\ ret' = [ret EXCEPT !.toggles = ret.toggles + 1]
    /\ UNCHANGED <<arg, queryVars, boundVars, ghostVars, searchVars, urlVars>>

NextToggle == ToggleAgain

SpecToggle == InitToggle /\ [][NextToggle]_vars

\* C14: one toggle of r takes r out of the requirement set when it is in it
\* and puts it in when it is not; a second toggle of r gives back the
\* original set; the selection never holds an id twice.
C14_ToggleIsInvolution ==
    LET r == arg.requirementId
        original == Range(arg.original)
    IN  /\ NoDuplicates(selectedRequirements)
        /\ ret.toggles = 1 =>
              Range(selectedRequirements) =
                 IF r \in original THEN original \ {r} ELSE original \cup {r}
        /\ ret.toggles = 2 => Range(selectedRequirements) = original

\* a selected requirement toggled off and on again: it is now the last one
C14_Witness ==
    /\ ret.toggles = 2
    /\ Len(arg.original) = 2
    /\ arg.original[1] = arg.requirementId
    /\ selectedRequirements = <<arg.original[2], arg.requirementId>>

(***************************************************************************)
(* Specification of the selection and the URL of the search page: the home *)
(* page search leads to the search page, a result card to the detail page, *)
(* and its back button to the search page again.  The effects of a render  *)
(* run before the next event.  The lookups of the home page and the        *)
(* fetches of SearchResults are left out.                                  *)
(***************************************************************************)
\* an event handler of the search page; writes: the requirement selection is
\* set, which re-runs the effect that writes the URL
PageEvent(op, writes) ==
    /\ page = "search"
    /\ EffectsSettled
    /\ pending' = [read |-> FALSE, write |-> writes]
    /\ lastOp' = op
    /\ UNCHANGED <<page, searchParams, opened, queryVars, boundVars, ghostVars,
                   searchVars, harnessVars>>

UrlAddCourse ==
    /\ \E c \in Courses : handleAddCourse(c)
    /\ PageEvent("add", FALSE)

UrlRemoveCourse ==
    /\ \E c \in Courses : handleRemoveCourse(c)
    /\ PageEvent("remove", FALSE)

UrlAddInstructor ==
    /\ \E i \in Instructors : handleAddInstructor(i)
    /\ PageEvent("add", FALSE)

UrlRemoveInstructor ==
    /\ \E i \in Instructors : handleRemoveInstructor(i)
    /\ PageEvent("remove", FALSE)

UrlToggleRequirement ==
    /\ \E r \in Requirements : handleToggleRequirement(r)
    /\ PageEvent("toggle", TRUE)

UrlClearFilters ==
    /\ handleClearFilters
    /\ PageEvent("clear", TRUE)

RunEffects ==
    /\ UrlEffects
    /\ UNCHANGED <<queryVars, boundVars, ghostVars, searchVars, harnessVars>>

SelectResult ==
    /\ \E result \in DropdownResults : handleResultSelect(result)
    /\ UNCHANGED <<queryVars, boundVars, ghostVars, searchVars, harnessVars>>

OpenSearch ==
    /\ OpenSearchPage
    /\ UNCHANGED <<queryVars, boundVars, ghostVars, searchVars, harnessVars>>

OpenOffering ==
    /\ handleResultClick
    /\ UNCHANGED <<queryVars, boundVars, ghostVars, searchVars, harnessVars>>

BackToSearch ==
    /\ handleBackToSearch
    /\ UNCHANGED <<queryVars, boundVars, ghostVars, searchVars, harnessVars>>

OpenSearchAt ==
    /\ \E text \in AddressTexts : OpenSearchPageAt(text)
    /\ UNCHANGED <<queryVars, boundVars, ghostVars, searchVars, harnessVars>>

OpenDetailAt ==
    /\ \E text \in AddressTexts : OpenDetailPageAt(text)
    /\ UNCHANGED <<queryVars, boundVars, ghostVars, searchVars, harnessVars>>

InitUrl == QueryInit /\ HookUnmounted /\ HarnessIdle /\ AtHome

NextUrl ==
    \/ SelectResult
    \/ OpenSearch
    \/ OpenSearchAt
    \/ OpenDetailAt
    \/ UrlAddCourse
    \/ UrlRemoveCourse
    \/ UrlAddInstructor
    \/ UrlRemoveInstructor
    \/ UrlToggleRequirement
    \/ UrlClearFilters
    \/ RunEffects
    \/ OpenOffering
    \/ BackToSearch

SpecUrl == InitUrl /\ [][NextUrl]_vars

\* C13: when the user comes back from the detail page and the effects of the
\* search page have run, the selection is the one the offering was opened
\* with: the same courses and instructors in the same order and the same set
\* of requirement ids.
C13_UrlRoundTrip ==
    (page = "search" /\ lastOp = "back" /\ EffectsSettled)
    => /\ selectedCourses = opened.courses
       /\ selectedInstructors = opened.instructors
       /\ Range(selectedRequirements) = Range(opened.requirements)

\* C15: from the clear until the next operation of the user, the course, the
\* instructor and the requirement selection are empty.
C15_ClearEmptiesAll ==
    (page = "search" /\ lastOp = "clear")
    => /\ selectedCourses = <<>>
       /\ selectedInstructors = <<>>
       /\ selectedRequirements = <<>>

(***************************************************************************)
(* ratingCalculations.js.  A distribution is the list of its entries in    *)
(* the order of Object.entries: the keys that are integers first, in       *)
(* ascending order, then the other keys in insertion order.  A number that *)
(* need not be an integer is a fraction num/den with den > 0.              *)
(***************************************************************************)
Digits == {"0", "1", "2", "3", "4", "5", "6", "7", "8", "9"}

DigitValue(ch) ==
    CASE ch = "0" -> 0 [] ch = "1" -> 1 [] ch = "2" -> 2 [] ch = "3" -> 3
      [] ch = "4" -> 4 [] ch = "5" -> 5 [] ch = "6" -> 6 [] ch = "7" -> 7
      [] ch = "8" -> 8 [] ch = "9" -> 9

\* the characters of the labels of the model
Chars(label) ==
    CASE label = "1" -> <<"1">>
      [] label = "5" -> <<"5">>
      [] label = "6" -> <<"6">>
      [] label = "3 or fewer" -> <<"3", " ", "o", "r", " ", "f", "e", "w", "e", "r">>
      [] label = "4 - 7" -> <<"4", " ", "-", " ", "7">>
      [] label = "8 - 11" -> <<"8", " ", "-", " ", "1", "1">>
      [] label = "12 - 15" -> <<"1", "2", " ", "-", " ", "1", "5">>
      [] label = "16 - 19" -> <<"1", "6", " ", "-", " ", "1", "9">>
      [] label = "20 or more" -> <<"2", "0", " ", "o", "r", " ", "m", "o", "r", "e">>
      [] label = "N/A" -> <<"N", "/", "A">>
      [] label = "-" -> <<"-">>
      [] label = "" -> <<>>

RECURSIVE LeadingDigits(_)
LeadingDigits(chars) ==
    IF chars = <<>> \/ Head(chars) \notin Digits THEN <<>>
    ELSE <<Head(chars)>> \o LeadingDigits(Tail(chars))

RECURSIVE DecimalValue(_)
DecimalValue(digits) ==
    IF digits = <<>> THEN 0
    ELSE 10 * DecimalValue(SubSeq(digits, 1, Len(digits) - 1))
         + DigitValue(digits[Len(digits)])

\* parseFloat on the labels of the model: the number at the start of the
\* string, NaN when the string does not start with a digit
parseFloat(label) ==
    LET digits == LeadingDigits(Chars(label))
    IN  [isNaN |-> digits = <<>>, value |-> DecimalValue(digits)]

MissingDistribution == [missing |-> TRUE, entries |-> <<>>]

Zero == [num |-> 0, den |-> 1]

\* the accumulators of calculateAverageRating after the entries
RECURSIVE AverageAccumulators(_)
AverageAccumulators(entries) ==
    IF entries = <<>> THEN [totalResponses |-> 0, weightedSum |-> 0]
    ELSE LET acc == AverageAccumulators(SubSeq(entries, 1, Len(entries) - 1))
             entry == entries[Len(entries)]
             numericRating == parseFloat(entry.label)
         IN  IF ~numericRating.isNaN /\ entry.count > 0
             THEN [totalResponses |-> acc.totalResponses + entry.count,
                   weightedSum |-> acc.weightedSum
                                   + numericRating.value * entry.count]
             ELSE acc

calculateAverageRating(distribution) ==
    IF distribution.missing THEN Zero
    ELSE LET acc == AverageAccumulators(distribution.entries)
         IN  IF acc.totalResponses > 0
             THEN [num |-> acc.weightedSum, den |-> acc.totalResponses]
             ELSE Zero

EmptySentinel == ""

MissingSentinel == "-"

\* modeKey and maxCount of calculateMode after the entries
RECURSIVE ModeAccumulators(_)
ModeAccumulators(entries) ==
    IF entries = <<>> THEN [modeKey |-> EmptySentinel, maxCount |-> 0]
    ELSE LET acc == ModeAccumulators(SubSeq(entries, 1, Len(entries) - 1))
             entry == entries[Len(entries)]
         IN  IF entry.count > acc.maxCount
             THEN [modeKey |-> entry.label, maxCount |-> entry.count]
             ELSE acc

calculateMode(distribution) ==
    IF distribution.missing THEN MissingSentinel
    ELSE ModeAccumulators(distribution.entries).modeKey

\* variant: the thresholds of the numeric ratings are strict
getRatingColorClassStrict(rating) ==
    IF rating.empty THEN ""
    ELSE IF rating.isString
    THEN CASE rating.text = "3 or fewer" -> "rating-excellent"
           [] rating.text = "4 - 7" -> "rating-good"
           [] rating.text = "8 - 11" -> "rating-average"
           [] rating.text = "12 - 15" -> "rating-poor"
           [] rating.text = "16 - 19" -> "rating-very-poor"
           [] rating.text = "20 or more" -> "rating-very-poor"
           [] OTHER -> ""
    ELSE IF rating.hundredths > 550 THEN "rating-excellent"
    ELSE IF rating.hundredths > 500 THEN "rating-good"
    ELSE IF rating.hundredths > 450 THEN "rating-average"
    ELSE IF rating.hundredths > 400 THEN "rating-poor"
    ELSE "rating-very-poor"

\* rating is null, undefined, '' or 0 (empty), a string (text), or a number
\* given in hundredths
getRatingColorClass(rating) ==
    IF rating.empty THEN ""
    ELSE IF rating.isString
    THEN CASE rating.text = "3 or fewer" -> "rating-excellent"
           [] rating.text = "4 - 7" -> "rating-good"
           [] rating.text = "8 - 11" -> "rating-average"
           [] rating.text = "12 - 15" -> "rating-poor"
           [] rating.text = "16 - 19" -> "rating-very-poor"
           [] rating.text = "20 or more" -> "rating-very-poor"
           [] OTHER -> ""
    ELSE IF rating.hundredths >= 550 THEN "rating-excellent"
    ELSE IF rating.hundredths >= 500 THEN "rating-good"
    ELSE IF rating.hundredths >= 450 THEN "rating-average"
    ELSE IF rating.hundredths >= 400 THEN "rating-poor"
    ELSE "rating-very-poor"

RATING_TYPES ==
    <<"rating_of_instruction", "rating_of_course", "estimated_learning",
      "intellectual_challenge", "stimulating_instructor">>

\* Math.round(x * 10) / 10 of a fraction that is not negative, in tenths
RoundToTenths(x) == (20 * x.num + x.den) \div (2 * x.den)

\* the value 0 of time_survey, which is otherwise a label
NoTimeSurvey == [isNumber |-> TRUE, label |-> ""]

\* the variables of processSurveyResponses after the responses
RECURSIVE SurveyAccumulators(_)
SurveyAccumulators(surveyResponses) ==
    IF surveyResponses = <<>>
    THEN [rating_of_instruction |-> Zero, rating_of_course |-> Zero,
          estimated_learning |-> Zero, intellectual_challenge |-> Zero,
          stimulating_instructor |-> Zero, time_survey |-> NoTimeSurvey]
    ELSE LET acc == SurveyAccumulators(
                       SubSeq(surveyResponses, 1, Len(surveyResponses) - 1))
             response == surveyResponses[Len(surveyResponses)]
             average == calculateAverageRating(response.distribution)
         IN  CASE response.survey_question = "rating_of_instruction" ->
                     [acc EXCEPT !.rating_of_instruction = average]
               [] response.survey_question = "rating_of_course" ->
                     [acc EXCEPT !.rating_of_course = average]
               [] response.survey_question = "estimated_learning" ->
                     [acc EXCEPT !.estimated_learning = average]
               [] response.survey_question = "intellectual_challenge" ->
                     [acc EXCEPT !.intellectual_challenge = average]
               [] response.survey_question = "stimulating_instructor" ->
                     [acc EXCEPT !.stimulating_instructor = average]
               [] response.survey_question = "time_survey" ->
                     [acc EXCEPT !.time_survey =
                         [isNumber |-> FALSE,
                          label |-> calculateMode(response.distribution)]]
               [] OTHER -> acc

\* variant: the averages are truncated to one decimal place
processSurveyResponsesTruncated(surveyResponses) ==
    LET acc == SurveyAccumulators(surveyResponses)
    IN  [rating_of_instruction |->
             (10 * acc.rating_of_instruction.num) \div acc.rating_of_instruction.den,
         rating_of_course |->
             (10 * acc.rating_of_course.num) \div acc.rating_of_course.den,
         estimated_learning |->
             (10 * acc.estimated_learning.num) \div acc.estimated_learning.den,
         intellectual_challenge |->
             (10 * acc.intellectual_challenge.num) \div acc.intellectual_challenge.den,
         stimulating_instructor |->
             (10 * acc.stimulating_instructor.num) \div acc.stimulating_instructor.den,
         time_survey |-> acc.time_survey]

\* the numeric metrics of the result are in tenths; a null or empty
\* surveyResponses is the empty list
processSurveyResponses(surveyResponses) ==
    LET acc == SurveyAccumulators(surveyResponses)
    IN  [rating_of_instruction |-> RoundToTenths(acc.rating_of_instruction),
         rating_of_course |-> RoundToTenths(acc.rating_of_course),
         estimated_learning |-> RoundToTenths(acc.estimated_learning),
         intellectual_challenge |-> RoundToTenths(acc.intellectual_challenge),
         stimulating_instructor |-> RoundToTenths(acc.stimulating_instructor),
         time_survey |-> acc.time_survey]

\* a property name that is an array index: Object.entries lists these first
IsIndexKey(label) ==
    LET chars == Chars(label)
    IN  /\ chars # <<>>
        /\ LeadingDigits(chars) = chars
        /\ (Len(chars) > 1 => chars[1] # "0")

\* timeSurveyCounts[timeValue] = (timeSurveyCounts[timeValue] || 0) + 1, the
\* entries kept in the order of Object.entries
RECURSIVE CountLabel(_, _)
CountLabel(entries, label) ==
    IF entries = <<>> THEN <<[label |-> label, count |-> 1]>>
    ELSE IF Head(entries).label = label
    THEN <<[label |-> label, count |-> Head(entries).count + 1]>> \o Tail(entries)
    ELSE IF /\ IsIndexKey(label)
            /\ \/ ~IsIndexKey(Head(entries).label)
               \/ parseFloat(label).value < parseFloat(Head(entries).label).value
    THEN <<[label |-> label, count |-> 1]>> \o entries
    ELSE <<Head(entries)>> \o CountLabel(Tail(entries), label)

NoProfessorData ==
    [rating_of_instruction |-> 0, rating_of_course |-> 0, estimated_learning |-> 0,
     intellectual_challenge |-> 0, stimulating_instructor |-> 0,
     time_survey |-> NoTimeSurvey]

\* one iteration of the forEach over the offerings: acc is numericAccumulators
\* and timeSurveyCounts before it, offeringRatings the summary of the offering
AccumulateOffering(acc, survey_responses, offeringRatings) ==
    IF Len(survey_responses) = 0 THEN acc
    ELSE [numeric |->
             [type \in Range(RATING_TYPES) |->
                 IF offeringRatings[type] > 0
                 THEN [total |-> acc.numeric[type].total + offeringRatings[type],
                       count |-> acc.numeric[type].count + 1]
                 ELSE acc.numeric[type]],
          timeSurveyCounts |->
             IF ~offeringRatings.time_survey.isNumber
                /\ offeringRatings.time_survey.label # ""
             THEN CountLabel(acc.timeSurveyCounts, offeringRatings.time_survey.label)
             ELSE acc.timeSurveyCounts]

\* numericAccumulators and timeSurveyCounts after the offerings; an offering
\* is its survey_responses
RECURSIVE ProfessorAccumulators(_)
ProfessorAccumulators(course_offerings) ==
    IF course_offerings = <<>>
    THEN [numeric |-> [type \in Range(RATING_TYPES) |-> [total |-> 0, count |-> 0]],
          timeSurveyCounts |-> <<>>]
    ELSE AccumulateOffering(
            ProfessorAccumulators(
               SubSeq(course_offerings, 1, Len(course_offerings) - 1)),
            course_offerings[Len(course_offerings)],
            processSurveyResponses(course_offerings[Len(course_offerings)]))

\* Math.round((total / count) * 10) / 10 in tenths, total in tenths
RoundedMean(total, count) == (2 * total + count) \div (2 * count)

\* variant: an offering without a value for a metric counts as zero
calculateProfessorAveragesOverAll(professorData) ==
    IF professorData.missing \/ Len(professorData.course_offerings) = 0
    THEN NoProfessorData
    ELSE LET acc == ProfessorAccumulators(professorData.course_offerings)
             mode == calculateMode([missing |-> FALSE,
                                    entries |-> acc.timeSurveyCounts])
         IN  [type \in Range(RATING_TYPES) \cup {"time_survey"} |->
                 IF type = "time_survey"
                 THEN IF mode = "" THEN NoTimeSurvey
                      ELSE [isNumber |-> FALSE, label |-> mode]
                 ELSE IF acc.numeric[type].count > 0
                 THEN RoundedMean(acc.numeric[type].total,
                                  Len(professorData.course_offerings))
                 ELSE 0]

\* the numeric metrics of the result are in tenths
calculateProfessorAverages(professorData) ==
    IF professorData.missing \/ Len(professorData.course_offerings) = 0
    THEN NoProfessorData
    ELSE LET acc == ProfessorAccumulators(professorData.course_offerings)
             mode == calculateMode([missing |-> FALSE,
                                    entries |-> acc.timeSurveyCounts])
         IN  [type \in Range(RATING_TYPES) \cup {"time_survey"} |->
                 IF type = "time_survey"
                 THEN IF mode = "" THEN NoTimeSurvey
                      ELSE [isNumber |-> FALSE, label |-> mode]
                 ELSE IF acc.numeric[type].count > 0
                 THEN RoundedMean(acc.numeric[type].total, acc.numeric[type].count)
                 ELSE 0]

(***************************************************************************)
(* Specification of the rating calculations: one call of one function on   *)
(* an argument of a bounded set.                                           *)
(***************************************************************************)
MaxCount == 3
MaxEntries == 3
MaxResponses == 2
MaxOfferings == 3
MaxRating == 650

Labels == {"1", "5", "3 or fewer", "4 - 7", "N/A"}

Entries == {[label |-> l, count |-> n] : l \in Labels, n \in 0..MaxCount}

\* the order of Object.entries: index keys ascending, then the other keys
EntriesOrdered(entries) ==
    \A i, j \in 1..Len(entries) :
       i < j =>
          /\ entries[i].label # entries[j].label
          /\ IsIndexKey(entries[j].label) =>
                /\ IsIndexKey(entries[i].label)
                /\ parseFloat(entries[i].label).value
                      < parseFloat(entries[j].label).value

EntryLists ==
    {entries \in UNION {[1..n -> Entries] : n \in 0..MaxEntries} :
        EntriesOrdered(entries)}

Distributions ==
    {[missing |-> FALSE, entries |-> entries] : entries \in EntryLists}
    \cup {MissingDistribution}

Dist(entries) == [missing |-> FALSE, entries |-> entries]

Entry(label, count) == [label |-> label, count |-> count]

\* distributions of the questions on the scale 1 to 6
ScaleDistributions ==
    {MissingDistribution,
     Dist(<<>>),
     Dist(<<Entry("5", 0)>>),
     Dist(<<Entry("5", 1)>>),
     Dist(<<Entry("1", 3)>>),
     Dist(<<Entry("1", 1), Entry("5", 1)>>),
     Dist(<<Entry("1", 2), Entry("5", 1)>>),
     Dist(<<Entry("1", 1), Entry("5", 2)>>),
     Dist(<<Entry("5", 1), Entry("6", 1)>>)}

\* distributions of the hours-per-week question
TimeDistributions ==
    {MissingDistribution,
     Dist(<<>>),
     Dist(<<Entry("3 or fewer", 2), Entry("4 - 7", 5), Entry("8 - 11", 1)>>),
     Dist(<<Entry("8 - 11", 1), Entry("4 - 7", 1)>>),
     Dist(<<Entry("20 or more", 0)>>)}

OtherQuestion == "class_standing"

Responses ==
    {[survey_question |-> q, distribution |-> d] :
        q \in Range(RATING_TYPES), d \in ScaleDistributions}
    \cup {[survey_question |-> "time_survey", distribution |-> d] :
            d \in TimeDistributions}
    \cup {[survey_question |-> OtherQuestion, distribution |-> d] :
            d \in {Dist(<<Entry("5", 1)>>), Dist(<<Entry("4 - 7", 1)>>)}}

\* one response for a question at most
SurveyLists ==
    {responses \in UNION {[1..n -> Responses] : n \in 0..MaxResponses} :
        \A i, j \in 1..Len(responses) :
           i < j => responses[i].survey_question # responses[j].survey_question}

Response(question, distribution) ==
    [survey_question |-> question, distribution |-> distribution]

\* the survey_responses of the offerings of an instructor
OfferingSurveys ==
    {<<>>,
     <<Response("rating_of_course", Dist(<<Entry("5", 1)>>))>>,
     <<Response("rating_of_course", Dist(<<Entry("1", 3)>>))>>,
     <<Response("rating_of_course", Dist(<<Entry("1", 2), Entry("5", 1)>>)),
       Response("rating_of_instruction", Dist(<<Entry("5", 1)>>))>>,
     <<Response("rating_of_instruction", Dist(<<Entry("1", 1), Entry("5", 1)>>)),
       Response("time_survey", Dist(<<Entry("4 - 7", 2), Entry("8 - 11", 1)>>))>>,
     <<Response("rating_of_course", Dist(<<Entry("5", 0)>>)),
       Response("time_survey", Dist(<<Entry("8 - 11", 1)>>))>>,
     <<Response("time_survey", MissingDistribution)>>,
     <<Response("time_survey", Dist(<<>>))>>}

ProfessorData ==
    {[missing |-> TRUE, course_offerings |-> <<>>]}
    \cup {[missing |-> FALSE, course_offerings |-> offerings] :
            offerings \in UNION {[1..n -> OfferingSurveys] : n \in 0..MaxOfferings}}

Number(hundredths) ==
    [empty |-> hundredths = 0, isString |-> FALSE, text |-> "",
     hundredths |-> hundredths]

String(text) ==
    [empty |-> text = "", isString |-> TRUE, text |-> text, hundredths |-> 0]

WorkloadBuckets ==
    <<"3 or fewer", "4 - 7", "8 - 11", "12 - 15", "16 - 19", "20 or more">>

Ratings ==
    {Number(n) : n \in 0..MaxRating}
    \cup {String(s) : s \in Range(WorkloadBuckets) \cup {"", "-", "N/A", "5", "4-7"}}

InitRatings ==
    /\ QueryInit
    /\ HookUnmounted
    /\ AtSearch
    /\ ret = NotCalled
    /\ \/ arg \in {[called |-> TRUE, fn |-> "calculateAverageRating",
                    distribution |-> d] : d \in Distributions}
       \/ arg \in {[called |-> TRUE, fn |-> "calculateMode",
                    distribution |-> d] : d \in Distributions}
       \/ arg \in {[called |-> TRUE, fn |-> "getRatingColorClass",
                    rating |-> r] : r \in Ratings}
       \/ arg \in {[called |-> TRUE, fn |-> "processSurveyResponses",
                    surveyResponses |-> s] : s \in SurveyLists}
       \/ arg \in {[called |-> TRUE, fn |-> "calculateProfessorAverages",
                    professorData |-> p] : p \in ProfessorData}

Returns(value) ==
    /\ ~ret.called
    /\ ret' = [called |-> TRUE, value |-> value]
    /\ UNCHANGED <<arg, filterVars, queryVars, boundVars, ghostVars, searchVars,
                   urlVars>>

CallAverage ==
    /\ arg.fn = "calculateAverageRating"
    /\ Returns(calculateAverageRating(arg.distribution))

CallMode ==
    /\ arg.fn = "calculateMode"
    /\ Returns(calculateMode(arg.distribution))

CallColorClass ==
    /\ arg.fn = "getRatingColorClass"
    /\ Returns(getRatingColorClass(arg.rating))

CallSurvey ==
    /\ arg.fn = "processSurveyResponses"
    /\ Returns(processSurveyResponses(arg.surveyResponses))

CallProfessor ==
    /\ arg.fn = "calculateProfessorAverages"
    /\ Returns(calculateProfessorAverages(arg.professorData))

NextRatings ==
    \/ CallAverage
    \/ CallMode
    \/ CallColorClass
    \/ CallSurvey
    \/ CallProfessor

SpecRatings == InitRatings /\ [][NextRatings]_vars

\* a label that is a number
NumericLabel(label) ==
    Chars(label) # <<>> /\ \A i \in 1..Len(Chars(label)) : Chars(label)[i] \in Digits

\* the number of responses and the sum of label x count over the entries
\* with a numeric label
RECURSIVE NumericResponses(_)
NumericResponses(entries) ==
    IF entries = <<>> THEN [count |-> 0, sum |-> 0]
    ELSE LET rest == NumericResponses(Tail(entries))
             entry == Head(entries)
         IN  IF NumericLabel(entry.label)
             THEN [count |-> rest.count + entry.count,
                   sum |-> rest.sum
                           + DecimalValue(Chars(entry.label)) * entry.count]
             ELSE rest

CalledWith(fn) == arg.called /\ arg.fn = fn /\ ret.called

\* C16: calculateAverageRating returns sum(label x count) / sum(count) over
\* the entries with a numeric label, and 0 when that count is 0 or the
\* distribution is missing.
C16_WeightedAverage ==
    CalledWith("calculateAverageRating") =>
       LET expected == NumericResponses(arg.distribution.entries)
       IN  IF arg.distribution.missing \/ expected.count = 0
           THEN ret.value.num = 0
           ELSE ret.value.num * expected.count = expected.sum * ret.value.den

MaxOfCounts(entries) ==
    IF entries = <<>> THEN 0
    ELSE CHOOSE m \in {entries[i].count : i \in 1..Len(entries)} :
            \A i \in 1..Len(entries) : entries[i].count <= m

\* the first label in iteration order among those with the maximum count
FirstMode(entries) ==
    LET first == CHOOSE i \in 1..Len(entries) :
                    /\ entries[i].count = MaxOfCounts(entries)
                    /\ \A j \in 1..(i - 1) : entries[j].count < MaxOfCounts(entries)
    IN  entries[first].label

NoData(distribution) ==
    distribution.missing \/ MaxOfCounts(distribution.entries) = 0

\* C17: calculateMode returns the label with the maximum count, the first in
\* iteration order on a tie, and the same empty sentinel whenever the
\* distribution is missing, is empty or has only zero counts.
C17_ModeAndSentinel ==
    CalledWith("calculateMode") =>
       IF NoData(arg.distribution)
       THEN ret.value = EmptySentinel
       ELSE ret.value = FirstMode(arg.distribution.entries)

\* |x - tenths / 10| <= 0.05 for the fraction x = sum / count
IsRoundedToTenths(tenths, sum, count) ==
    LET distance == 10 * sum - tenths * count
    IN  2 * distance <= count /\ 2 * (0 - distance) <= count

ResponsesFor(surveyResponses, question) ==
    {i \in 1..Len(surveyResponses) : surveyResponses[i].survey_question = question}

\* C18: every numeric metric of processSurveyResponses is the weighted
\* average of the distribution of its question rounded to one decimal place,
\* time_survey is the mode of the distribution of its question, a question
\* without a response yields 0, and responses to other questions change
\* nothing.
C18_SurveySummary ==
    CalledWith("processSurveyResponses") =>
       /\ DOMAIN ret.value = Range(RATING_TYPES) \cup {"time_survey"}
       /\ \A type \in Range(RATING_TYPES) :
             LET present == ResponsesFor(arg.surveyResponses, type)
             IN  IF present = {} THEN ret.value[type] = 0
                 ELSE LET distribution ==
                             arg.surveyResponses[CHOOSE i \in present : TRUE].distribution
                          expected == NumericResponses(distribution.entries)
                      IN  IF distribution.missing \/ expected.count = 0
                          THEN ret.value[type] = 0
                          ELSE IsRoundedToTenths(ret.value[type], expected.sum,
                                                 expected.count)
       /\ LET present == ResponsesFor(arg.surveyResponses, "time_survey")
          IN  IF present = {} THEN ret.value.time_survey = NoTimeSurvey
              ELSE LET distribution ==
                          arg.surveyResponses[CHOOSE i \in present : TRUE].distribution
                   IN  /\ ~ret.value.time_survey.isNumber
                       /\ ~NoData(distribution) =>
                             ret.value.time_survey.label =
                                FirstMode(distribution.entries)

\* an average that is rounded up, next to the mode of the hours per week
C18_Witness ==
    /\ CalledWith("processSurveyResponses")
    /\ Len(arg.surveyResponses) = 2
    /\ ret.value.rating_of_course = 37
    /\ ret.value.rating_of_instruction = 0
    /\ ret.value.time_survey = [isNumber |-> FALSE, label |-> "4 - 7"]

\* the values of a metric in the summaries of the offerings that report it
ReportedValues(course_offerings, type) ==
    [i \in {k \in 1..Len(course_offerings) :
              processSurveyResponses(course_offerings[k])[type] # 0} |->
        processSurveyResponses(course_offerings[i])[type]]

RECURSIVE SumOf(_)
SumOf(f) ==
    IF DOMAIN f = {} THEN 0
    ELSE LET i == CHOOSE k \in DOMAIN f : TRUE
         IN  f[i] + SumOf([k \in DOMAIN f \ {i} |-> f[k]])

\* C19 as stated: every numeric metric of calculateProfessorAverages is the
\* mean of the summary values of the offerings whose value for the metric
\* is not zero, and 0 when there is no such offering.
C19_MeanOverReportingOfferings ==
    CalledWith("calculateProfessorAverages") =>
       \A type \in Range(RATING_TYPES) :
          LET values == ReportedValues(arg.professorData.course_offerings, type)
              count == Cardinality(DOMAIN values)
          IN  IF count = 0 THEN ret.value[type] = 0
              ELSE ret.value[type] * count = SumOf(values)

\* C19 amended: every numeric metric of calculateProfessorAverages is the
\* mean of the summary values of the offerings whose value for the metric
\* is not zero, rounded to one decimal place, and 0 when there is no such
\* offering.
C19_RoundedMeanOverReportingOfferings ==
    CalledWith("calculateProfessorAverages") =>
       \A type \in Range(RATING_TYPES) :
          LET values == ReportedValues(arg.professorData.course_offerings, type)
              count == Cardinality(DOMAIN values)
          IN  IF count = 0 THEN ret.value[type] = 0
              ELSE IsRoundedToTenths(ret.value[type], SumOf(values), 10 * count)

\* three offerings: one with three responses of 1, one with one response of
\* 5, one without a value for the course rating
C19_Witness ==
    /\ CalledWith("calculateProfessorAverages")
    /\ Len(arg.professorData.course_offerings) = 3
    /\ Cardinality(DOMAIN ReportedValues(arg.professorData.course_offerings,
                                         "rating_of_course")) = 2
    /\ ret.value.rating_of_course = 30
    /\ ret.value.rating_of_instruction = 0

BandRank(class) ==
    CASE class = "rating-excellent" -> 1
      [] class = "rating-good" -> 2
      [] class = "rating-average" -> 3
      [] class = "rating-poor" -> 4
      [] class = "rating-very-poor" -> 5
      [] OTHER -> 0

\* C20: getRatingColorClass maps 0 and the empty value to no class, a number
\* to the band of its threshold, a workload bucket to a band that is not
\* better for more workload, and any other string to no class.
C20_ColorBands ==
    CalledWith("getRatingColorClass") =>
       LET rating == arg.rating
       IN  /\ rating.empty => ret.value = ""
           /\ (~rating.empty /\ ~rating.isString) =>
                 /\ ret.value = "rating-excellent" <=> rating.hundredths >= 550
                 /\ ret.value = "rating-good" <=>
                       (rating.hundredths >= 500 /\ rating.hundredths < 550)
                 /\ ret.value = "rating-average" <=>
                       (rating.hundredths >= 450 /\ rating.hundredths < 500)
                 /\ ret.value = "rating-poor" <=>
                       (rating.hundredths >= 400 /\ rating.hundredths < 450)
                 /\ ret.value = "rating-very-poor" <=> rating.hundredths < 400
           /\ (rating.isString /\ rating.text = "3 or fewer") =>
                 ret.value = "rating-excellent"
           /\ (rating.isString /\ rating.text = "20 or more") =>
                 ret.value = "rating-very-poor"
           /\ \A i \in 1..Len(WorkloadBuckets) :
                 (rating.isString /\ rating.text = WorkloadBuckets[i]) =>
                    /\ BandRank(ret.value) > 0
                    /\ \A j \in 1..Len(WorkloadBuckets) :
                          LET other == getRatingColorClass(String(WorkloadBuckets[j]))
                          IN  /\ j < i => BandRank(other) <= BandRank(ret.value)
                              /\ j > i => BandRank(other) >= BandRank(ret.value)
           /\ (rating.isString /\ rating.text \notin Range(WorkloadBuckets)) =>
                 ret.value = ""

\* a rating on a threshold, as a number
C20_Witness ==
    /\ CalledWith("getRatingColorClass")
    /\ arg.rating = Number(550)
    /\ ret.value = "rating-excellent"

\* C21: a step of the effects of the search page that is not the restore
\* after the page was loaded (opened by its address, reached from the home
\* page search or from the back button) leaves the course, the instructor and
\* the requirement selection as they are: after an add, remove, toggle or
\* clear, only the next user action changes the selection.
C21_SelectionChangesOnlyByUser ==
    [][(/\ page = "search"
        /\ ~EffectsSettled
        /\ lastOp \in {"add", "remove", "toggle", "clear"})
       => UNCHANGED filterVars]_vars

\* the offerings of the store that match the course and instructor selection
\* and carry at least one selected requirement
MatchingWithRequirement ==
    {o \in MatchingOfferings : TagsOf(o) \cap Range(selectedRequirements) # {}}

\* the matching offerings at the offsets of the store that were not fetched
UnfetchedMatching(tie) ==
    LET rest == searchOfferings(
                    [CurrentFilters(currentOffset) EXCEPT !.limit = NumOfferings],
                    tie).data
    IN  Range(rest) \cap MatchingWithRequirement

\* C22: with a requirement selected, no failure and no request in flight,
\* hasMore is false only when the store holds no matching offering at an
\* offset that was not fetched, and then every offering that matches the
\* course and instructor selection and carries a selected requirement is in
\* the result list.
C22_RequirementWalkIsComplete ==
    (/\ Quiescent
     /\ error = NoError
     /\ FiltersSelected
     /\ Len(selectedRequirements) > 0
     /\ ~hasMore)
    => /\ \A tie \in TieOrders : UnfetchedMatching(tie) = {}
       /\ MatchingWithRequirement \subseteq Range(results)

\* C23: the completion of a request that was canceled, the latest fetch being
\* a newer fetchInitial, leaves the error state as it is: the failure of a
\* superseded request is never shown.
C23_SupersededNeverSurfacesError ==
    [][\A i \in 1..Len(inflight) :
          (/\ inflight[i].aborted
           /\ latest.kind = "initial"
           /\ inflight' = RemoveAt(inflight, i))
          => error' = error]_vars

\* C24: when the latest search has ended, no other search having been in
\* flight with it, and its course lookup or its instructor lookup failed,
\* the results are empty, the dropdown is closed and loading is false.
C24_LookupFailureClearsResults ==
    (/\ latestSearch.status = "done"
     /\ latestSearch.failed
     /\ ~latestSearch.raced
     /\ lookups = <<>>)
    => /\ searchResults = <<>>
       /\ ~showDropdown
       /\ ~searchLoading

\* the entries of a distribution whose label is a number
NumericEntries(entries) == SelectSeq(entries, LAMBDA entry : NumericLabel(entry.label))

\* C25: the entries whose label is not a number contribute nothing:
\* calculateAverageRating returns for a distribution what it returns for the
\* same distribution without these entries.
C25_NonNumericLabelsIgnored ==
    (CalledWith("calculateAverageRating") /\ ~arg.distribution.missing)
    => ret.value = calculateAverageRating(
                      Dist(NumericEntries(arg.distribution.entries)))

\* the modal workload bucket of an offering, "" when the offering reports no
\* workload data
OfferingMode(survey_responses) ==
    LET present == ResponsesFor(survey_responses, "time_survey")
    IN  IF present = {} THEN ""
        ELSE LET distribution ==
                    survey_responses[CHOOSE i \in present : TRUE].distribution
             IN  IF NoData(distribution) THEN ""
                 ELSE FirstMode(distribution.entries)

\* the modal buckets of the offerings that report workload data
ReportedModes(course_offerings) ==
    SelectSeq([i \in 1..Len(course_offerings) |-> OfferingMode(course_offerings[i])],
              LAMBDA mode : mode # "")

Occurrences(modes, label) == Cardinality({i \in 1..Len(modes) : modes[i] = label})

\* the bucket that occurs most often, the first encountered on a tie
ModeOfModes(modes) ==
    LET first == CHOOSE i \in 1..Len(modes) :
                    /\ \A j \in 1..Len(modes) :
                          Occurrences(modes, modes[j]) <= Occurrences(modes, modes[i])
                    /\ \A j \in 1..(i - 1) :
                          Occurrences(modes, modes[j]) < Occurrences(modes, modes[i])
    IN  modes[first]

\* C26: the workload metric of calculateProfessorAverages is the mode of the
\* modal buckets of the offerings that report workload data, the first
\* encountered on a tie, and 0 when there is no such offering; when no
\* offering reports any data the result is the no-data shape.
C26_WorkloadModeOfModes ==
    CalledWith("calculateProfessorAverages") =>
       LET course_offerings == arg.professorData.course_offerings
           modes == ReportedModes(course_offerings)
       IN  /\ IF modes = <<>>
              THEN ret.value.time_survey = NoTimeSurvey
              ELSE ret.value.time_survey =
                      [isNumber |-> FALSE, label |-> ModeOfModes(modes)]
           /\ (/\ modes = <<>>
               /\ \A type \in Range(RATING_TYPES) :
                     DOMAIN ReportedValues(course_offerings, type) = {})
              => ret.value = NoProfessorData

\* C27: the read effect of the search page leaves the requirement selection
\* as it is when the requirements parameter of the URL is not the encoded
\* JSON of an array, and a search page that was reached with a malformed
\* requirements or searchState parameter has an empty selection until the
\* next user action.
C27_MalformedUrlKeepsSelection ==
    /\ [][(/\ page = "search"
           /\ pending.read
           /\ searchParams.requirements # <<>>
           /\ Malformed(searchParams.requirements))
          => selectedRequirements' = selectedRequirements]_vars
    /\ []((page = "search" /\ lastOp = "malformed") => NoSelection)

\* the effects have run on a page that was reached with a malformed value
C27_Witness ==
    /\ page = "search"
    /\ lastOp = "malformed"
    /\ EffectsSettled
    /\ NoSelection
    /\ searchParams = NoParams

\* C28: loading is true while a fetchInitial request that was not canceled
\* is in flight, and loading and loadingMore are false when no request is in
\* flight.
C28_LoadingFollowsLatestRequest ==
    /\ (\E i \in 1..Len(inflight) :
           inflight[i].kind = "initial" /\ ~inflight[i].aborted) => loading
    /\ inflight = <<>> => (~loading /\ ~loadingMore)

\* C29: the step in which a fetchMore request fails changes neither the
\* result list, nor the offset, nor totalCount, nor hasMore, nor loading: it
\* sets the error of fetchMore and clears loadingMore.
C29_FailedFetchMoreKeepsList ==
    [][\A i \in 1..Len(inflight) :
          (/\ inflight[i].kind = "more"
           /\ inflight' = RemoveAt(inflight, i)
           /\ error' # error)
          => /\ UNCHANGED <<results, currentOffset, totalCount, hasMore, loading>>
             /\ error' = "Failed to load more results"
             /\ ~loadingMore']_vars

\* the first page is still listed after the second page failed to load
C29_Witness ==
    /\ latest = [kind |-> "more", status |-> "failed", superseded |-> {}]
    /\ error = "Failed to load more results"
    /\ Len(results) = PageSize
    /\ currentOffset = PageSize
    /\ totalCount > PageSize
    /\ hasMore
    /\ ~loadingMore

\* the numeric labels of a distribution that have a positive count
PositiveLabels(entries) ==
    {DecimalValue(Chars(entries[i].label)) :
        i \in {k \in 1..Len(entries) :
                 NumericLabel(entries[k].label) /\ entries[k].count > 0}}

\* every distribution of a rating question has only the labels 1 to 6
OnScale(surveyResponses) ==
    \A i \in 1..Len(surveyResponses) :
       surveyResponses[i].survey_question \in Range(RATING_TYPES) =>
          \A k \in 1..Len(surveyResponses[i].distribution.entries) :
             surveyResponses[i].distribution.entries[k].label
                \in {"1", "2", "3", "4", "5", "6"}

\* C30: the weighted average of a distribution with a positive count on a
\* numeric label lies between the smallest and the largest such label, and
\* every numeric metric of an offering summary and of an instructor summary
\* over the labels 1 to 6 is 0 or lies between 1 and 6.
C30_AverageWithinLabels ==
    /\ (CalledWith("calculateAverageRating") /\ ~arg.distribution.missing) =>
          LET labels == PositiveLabels(arg.distribution.entries)
          IN  labels # {} =>
                 /\ \E low \in labels : low * ret.value.den <= ret.value.num
                 /\ \E high \in labels : ret.value.num <= high * ret.value.den
    /\ (CalledWith("processSurveyResponses") /\ OnScale(arg.surveyResponses)) =>
          \A type \in Range(RATING_TYPES) :
             ret.value[type] = 0 \/ ret.value[type] \in 10..60
    /\ (/\ CalledWith("calculateProfessorAverages")
        /\ \A i \in 1..Len(arg.professorData.course_offerings) :
              OnScale(arg.professorData.course_offerings[i])) =>
          \A type \in Range(RATING_TYPES) :
             ret.value[type] = 0 \/ ret.value[type] \in 10..60

====
